---- MODULE Spec2Model ----
(***************************************************************************)
(* AutoOD (src/autood.py): one run of AutoOD.run_autood.  The dataset is   *)
(* loaded, every selected detector is run over its hyperparameter and      *)
(* target-count sweep (the Builder), the majority vote is taken when       *)
(* ground truth is there, and autood_training runs two rounds of at most   *)
(* 50 self-training iterations with pruning of detector columns.           *)
(*                                                                         *)
(* The detectors and the two classifiers are external: a detector's score  *)
(* vector, a classifier's probabilities and a logistic regression's        *)
(* coefficients are drawn from small sets.  Probabilities are in           *)
(* thousandths (0.5 is 500), target fractions in hundredths.               *)
(***************************************************************************)
EXTENDS Integers, Sequences, FiniteSets, TLC

\* ---------------------------------------------------------------- bounds
NumInst == 3
MaxSweep == 3

\* ------------------------------------------------------ program constants
MaxRoundIter == 50
StableLimit == 3
MinPruneCols == 2
RangeStride == 6
RescueMinWidth == 6
ImbalanceRatio == 1000
HighConf == 990
LowConf == 10
HalfProb == 500
RatioNum == 11
RatioDen == 10

Inst == 0 .. (NumInst - 1)

\* ------------------------------------------------------ python/numpy lists
\* range(a, b) as a sequence
PyRange(a, b) == [i \in 1 .. (IF b > a THEN b - a ELSE 0) |-> a + i - 1]

\* lst * n : the list repeated n times
PyRepeat(lst, n) == [i \in 1 .. (Len(lst) * n) |-> lst[((i - 1) % Len(lst)) + 1]]

RECURSIVE InsertSorted(_, _)
InsertSorted(x, s) ==
    IF s = << >> THEN << x >>
    ELSE IF x <= Head(s) THEN << x >> \o s
    ELSE << Head(s) >> \o InsertSorted(x, Tail(s))

\* np.sort of a list
RECURSIVE NpSort(_)
NpSort(s) == IF s = << >> THEN << >> ELSE InsertSorted(Head(s), NpSort(Tail(s)))

\* the ascending index array numpy's set operations and np.where give
RECURSIVE SortedIdx(_)
SortedIdx(S) ==
    IF S = {} THEN << >>
    ELSE LET m == CHOOSE x \in S : \A y \in S : x <= y
         IN  << m >> \o SortedIdx(S \ {m})

RECURSIVE SeqSum(_)
SeqSum(s) == IF s = << >> THEN 0 ELSE Head(s) + SeqSum(Tail(s))

RECURSIVE Flatten(_)
Flatten(ss) == IF ss = << >> THEN << >> ELSE Head(ss) \o Flatten(Tail(ss))

SeqMax(s) == CHOOSE x \in {s[i] : i \in DOMAIN s} : \A i \in DOMAIN s : s[i] <= x
SeqMin(s) == CHOOSE x \in {s[i] : i \in DOMAIN s} : \A i \in DOMAIN s : x <= s[i]

\* np.max(coef_index_range): the largest endpoint of a list of [start, end]
RangeMax(rs) == SeqMax(Flatten(rs))

\* ----------------------------------------------------------- the inputs
Methods == <<"LOF", "KNN", "IsolationForest", "Manalanobis">>

\* detection_methods of the request (app.py refuses an empty selection)
MethodSelections ==
    { {"KNN"}, {"LOF", "KNN"}, {"KNN", "Manalanobis"},
      {"IsolationForest"}, {"Manalanobis"} }

\* N_range: the target outlier fractions, in hundredths; three of them, or the
\* six that run_autood makes of an outlier range
N3 == <<34, 50, 67>>
N6 == <<34, 40, 50, 60, 67, 70>>

NRanges == { N3, N6 }

\* The score vectors a detector can give on NumInst instances.
ScoreAsc  == [i \in Inst |-> i]
ScoreDesc == [i \in Inst |-> NumInst - 1 - i]
\* instance NumInst-1 on top, instance 1 lowest
ScoreLast == [i \in Inst |-> IF i = 0 THEN 1 ELSE IF i = 1 THEN 0 ELSE i]
\* instance 0 on top, instance 1 lowest
ScoreFirst == [i \in Inst |-> IF i = 0 THEN NumInst ELSE IF i = 1 THEN 0 ELSE i - 1]

\* run_lof / run_knn / run_isolation_forest / run_mahalanobis on dataset d with
\* the h-th hyperparameter value of the method's sweep (external detectors).
\* Dataset 1: every detector ranks the instances alike.  Dataset 2: the methods
\* differ on the top instance and agree on the lowest.  Dataset 3: the odd and
\* the even hyperparameter values rank in opposite orders.  Dataset 4: the
\* methods rank in opposite orders.
DetectorScore(d, m, h) ==
    CASE d = 1 -> ScoreAsc
      [] d = 2 -> IF m \in {"LOF", "IsolationForest"} THEN ScoreLast ELSE ScoreFirst
      [] d = 3 -> IF h % 2 = 1 THEN ScoreAsc ELSE ScoreDesc
      [] OTHER -> IF m \in {"LOF", "IsolationForest"} THEN ScoreAsc ELSE ScoreDesc

\* ------------------------------------------------------- get_predictions
\* np.sort(scores)[::-1][num_outliers]
KthLargest(scores, num_outliers) ==
    NpSort([i \in 1 .. NumInst |-> scores[i - 1]])[NumInst - num_outliers]

\* a fault of get_predictions: scores >= threshold
get_predictions_at_least(scores, num_outliers) ==
    LET threshold == KthLargest(scores, num_outliers)
    IN  [i \in Inst |-> IF scores[i] >= threshold THEN 1 ELSE 0]

\* predictions = np.array(scores > threshold)
get_predictions(scores, num_outliers) ==
    LET threshold == KthLargest(scores, num_outliers)
    IN  [i \in Inst |-> IF scores[i] > threshold THEN 1 ELSE 0]

\* int(np.shape(X)[0] * percent), percent in hundredths
TargetCount(percent) == (NumInst * percent) \div 100

\* ------------------------------------------------------------ the Builder
\* AutoODParameters: the selected methods, len(k_range), len(if_range), N_range
ParamSpace ==
    [detection_methods : MethodSelections, k_len : 1 .. MaxSweep,
     if_len : 1 .. MaxSweep, N_range : NRanges]

\* N_range = [int(np.shape(X)[0] * percent) for percent in self.params.N_range]
NRangeCounts(p) == [i \in 1 .. Len(p.N_range) |-> TargetCount(p.N_range[i])]

\* knn_N_range = np.sort(N_range * len(self.params.k_range))
KnnNRange(p) == NpSort(PyRepeat(NRangeCounts(p), p.k_len))

\* the number of hyperparameter values of method m
SweepLen(p, m) ==
    CASE m \in {"LOF", "KNN"} -> p.k_len
      [] m = "IsolationForest" -> p.if_len
      [] OTHER -> 1

\* the number of vote columns method m appends to all_results
BlockLen(p, m) ==
    IF m = "Manalanobis" THEN Len(p.N_range) ELSE SweepLen(p, m) * Len(p.N_range)

\* The target count of the i-th (from 1) column of method m: LOF, KNN and
\* Isolation Forest all read knn_N_range[i]; Mahalanobis reads N_range[i].
ColumnTarget(p, m, i) ==
    IF m = "Manalanobis" THEN NRangeCounts(p)[i] ELSE KnnNRange(p)[i]

\* krange_list[i] / if_range_list[i]: the hyperparameter of the i-th column
ColumnHyper(p, m, i) == ((i - 1) % SweepLen(p, m)) + 1

\* What stops the Builder inside method m's block: Isolation Forest indexes
\* knn_N_range (len(k_range) * N_size long) with i < len(if_range) * N_size;
\* Mahalanobis reads N_range, which only an earlier block assigns.
BlockError(p, m) ==
    CASE m = "IsolationForest" /\ p.if_len > p.k_len -> "IndexError"
      [] m = "Manalanobis" /\ p.detection_methods \cap {"LOF", "KNN", "IsolationForest"} = {}
            -> "NameError"
      [] OTHER -> ""

\* the vote columns of method m on dataset d (all_results.append(...))
VoteBlock(p, d, m) ==
    [i \in 1 .. BlockLen(p, m) |->
        LET h == ColumnHyper(p, m, i)
            t == ColumnTarget(p, m, i)
        IN  [method |-> m, h |-> h, blk |-> (i - 1) \div SweepLen(p, m), target |-> t,
             votes |-> get_predictions(DetectorScore(d, m, h), t)]]

\* the score columns of method m (all_scores.append(...)), one per vote column
ScoreBlock(p, d, m) ==
    [i \in 1 .. BlockLen(p, m) |->
        LET h == ColumnHyper(p, m, i)
        IN  [method |-> m, h |-> h, score |-> DetectorScore(d, m, h)]]

\* The selected methods in the order the Builder runs them.
RECURSIVE SelectedFrom(_, _)
SelectedFrom(p, k) ==
    IF k > Len(Methods) THEN << >>
    ELSE (IF Methods[k] \in p.detection_methods THEN << Methods[k] >> ELSE << >>)
         \o SelectedFrom(p, k + 1)

Selected(p) == SelectedFrom(p, 1)

\* [f1_list_start_index, f1_list_end_index] of the g-th selected method: both
\* are len(f1s), and f1s grows only when y is given.
InstanceRange(p, hasY, g) ==
    LET sel == Selected(p)
        before == SeqSum([k \in 1 .. (g - 1) |-> BlockLen(p, sel[k])])
    IN  IF hasY THEN << before, before + BlockLen(p, sel[g]) >> ELSE << 0, 0 >>

\* [num_detectors, num_detectors + len(sweep)] of the g-th selected method
DetectorRange(p, g) ==
    LET sel == Selected(p)
        before == SeqSum([k \in 1 .. (g - 1) |-> SweepLen(p, sel[k])])
    IN  << before, before + SweepLen(p, sel[g]) >>

\* _run_unsupervised_outlier_detection_methods(X, y)
Builder(p, d, hasY) ==
    LET sel == Selected(p)
        errs == {BlockError(p, sel[g]) : g \in 1 .. Len(sel)} \ {""}
    IN  IF errs # {}
        THEN [ok |-> FALSE, error |-> CHOOSE e \in errs : TRUE]
        ELSE [ok |-> TRUE, error |-> "",
              L |-> Flatten([g \in 1 .. Len(sel) |-> VoteBlock(p, d, sel[g])]),
              scores |-> Flatten([g \in 1 .. Len(sel) |-> ScoreBlock(p, d, sel[g])]),
              instance_index_ranges |-> [g \in 1 .. Len(sel) |-> InstanceRange(p, hasY, g)],
              detector_index_ranges |-> [g \in 1 .. Len(sel) |-> DetectorRange(p, g)]]

\* -------------------------------------------------------------- run_mv
RowSum(L, i) == SeqSum([c \in 1 .. Len(L) |-> L[c].votes[i]])

\* a fault of MajorityVote: a row at exactly half the columns counted as outlier
MajorityVoteAtLeast(L, i) == IF 2 * RowSum(L, i) >= Len(L) THEN 1 ELSE 0

\* mid = np.shape(L)[1] / 2 ; predictions[np.sum(L, axis=1) > mid] = 1
MajorityVote(L, i) == IF 2 * RowSum(L, i) > Len(L) THEN 1 ELSE 0

run_mv(L) == [i \in Inst |-> MajorityVote(L, i)]

\* ------------------------------------------------- autood_training: set-up
\* scores[:, scores_for_training_indexes]: for every method group, the first
\* (detector_range width) columns from the start of its instance_range
ScoresForTrainingIndexes(index_range, coef_index_range) ==
    Flatten([g \in 1 .. Len(index_range) |->
        PyRange(index_range[g][1],
                index_range[g][1] + (coef_index_range[g][2] - coef_index_range[g][1]))])

ScoresForTraining(scores, index_range, coef_index_range) ==
    LET idx == ScoresForTrainingIndexes(index_range, coef_index_range)
    IN  [k \in 1 .. Len(idx) |-> scores[idx[k] + 1]]

\* -------------------------------------------------- the consensus labeler
AgreeOutlier(L) == {i \in Inst : RowSum(L, i) = Len(L)}
AgreeInlier(L)  == {i \in Inst : RowSum(L, i) = 0}
Disagree(L) == {i \in Inst : ~ (RowSum(L, i) = 0 \/ RowSum(L, i) = Len(L))}

\* L[:, a:b]: a numpy slice is cut at the matrix's last column
ColSlice(L, a, b) == SubSeq(L, a + 1, IF b < Len(L) THEN b ELSE Len(L))

\* a fault of InlierCandidates: the high-confidence inliers not intersected
InlierCandidatesAllAgreed(L, hc_out, hc_in, disagree) ==
    (AgreeInlier(L) \ hc_out) \ disagree

\* all_inlier_indexes before the rescue test
InlierCandidates(L, hc_out, hc_in, disagree) ==
    LET base == AgreeInlier(L) \ hc_out
    IN  (IF hc_in # {} THEN base \cap hc_in ELSE base) \ disagree

\* all_outlier_indexes before the rescue test
OutlierCandidates(L, hc_out) == AgreeOutlier(L) \cup hc_out

\* len(all_outlier_indexes) == 0 or len(inliers) / len(outliers) > 1000
RescueTriggered(inl, outl) ==
    Cardinality(outl) = 0 \/ Cardinality(inl) > ImbalanceRatio * Cardinality(outl)

\* temp_index of group g: the disagreeing rows whose votes in
\* L[:, index_range[g,0]:index_range[g,1]] sum to the range's width
SelfAgree(L, index_range, g) ==
    LET a == index_range[g][1]
        b == index_range[g][2]
    IN  IF b - a <= RescueMinWidth THEN {}
        ELSE {i \in Disagree(L) : RowSum(ColSlice(L, a, b), i) = b - a}

\* self_agree_index_list
SelfAgreeIndexList(L, index_range, inl, outl) ==
    IF RescueTriggered(inl, outl)
    THEN UNION {SelfAgree(L, index_range, g) : g \in 1 .. Len(index_range)}
    ELSE {}

\* One pass of the labeler (lines 318-346 and 553-585).
Labeler(L, index_range, hc_out, hc_in, disagree) ==
    LET inl == InlierCandidates(L, hc_out, hc_in, disagree)
        out0 == OutlierCandidates(L, hc_out)
        resc == SelfAgreeIndexList(L, index_range, inl, out0)
        outl == (out0 \cup resc) \ disagree
    IN  [inliers |-> inl, outliers |-> outl, rescue |-> resc,
         triggered |-> RescueTriggered(inl, out0),
         data_indexes |-> SortedIdx(inl) \o SortedIdx(outl),
         labels |-> [k \in 1 .. Cardinality(inl) |-> 0] \o [k \in 1 .. Cardinality(outl) |-> 1]]

\* ------------------------------------------------- the classifier outputs
\* predict_proba of a fitted classifier, in thousandths: every instance below
\* index c gets `lo`, the others `hi`.
ProbStep(c, lo, hi) == [i \in Inst |-> IF i < c THEN lo ELSE hi]

\* predict_proba with instance 0 at `lo`, the last instance at `hi` and the
\* instances between them at `mid`
ProbRamp(lo, mid, hi) ==
    [i \in Inst |-> IF i = 0 THEN lo ELSE IF i = NumInst - 1 THEN hi ELSE mid]

\* What one fit of the classifier pair can predict: <<P_A, P_B>>.  The last
\* pair is sure of instance 0 as an inlier and of nothing else.
FitOutcomes ==
    { <<ProbStep(NumInst - 1, 5, 995), ProbStep(NumInst - 1, 5, 995)>>,
      <<ProbStep(1, 5, 995), ProbStep(1, 5, 995)>>,
      <<ProbStep(1, 5, 995), ProbStep(NumInst - 1, 500, 700)>>,
      <<ProbStep(NumInst - 1, 5, 995), ProbRamp(5, 500, 700)>> }

\* np.where(P_A > 0.99) intersected with np.where(P_B > 0.99)
HighConfOutliers(pa, pb) == {i \in Inst : pa[i] > HighConf /\ pb[i] > HighConf}
HighConfInliers(pa, pb)  == {i \in Inst : pa[i] < LowConf /\ pb[i] < LowConf}

\* a fault of Threshold: a probability of exactly 0.5 counted as outlier
ThresholdAtLeast(pr) == [i \in Inst |-> IF pr[i] >= HalfProb THEN 1 ELSE 0]

\* int(p > 0.5)
Threshold(pr) == [i \in Inst |-> IF pr[i] > HalfProb THEN 1 ELSE 0]

ClassifierDisagree(pa, pb) == {i \in Inst : Threshold(pa)[i] # Threshold(pb)[i]}

\* LogisticRegression.fit / SVC.fit raise on a training set of one class
FitRaises(labels) == ~ (\E k \in DOMAIN labels : labels[k] = 0)
                     \/ ~ (\E k \in DOMAIN labels : labels[k] = 1)

\* ------------------------------------------------------ the pruning engine
\* The coefficient values a fitted logistic regression can weigh a column with.
CoefVals == {-1, 0, 20, 21}

\* coef_ of a fit on n score columns: one column weighed `a`, the others `b`
CoefVecs(n) ==
    { [k \in 1 .. n |-> IF k = q THEN a ELSE b] : q \in 1 .. n, a \in CoefVals, b \in CoefVals }

\* combined_coef (lines 388-400): fitted only when np.max(coef_index_range) >= 2,
\* by clf_prune_2 on the high-confidence sets or else by clf, with one weight
\* per column of the scaled scores; << >> stands for "not assigned".
CombinedCoefs(coef_index_range, sft) ==
    IF RangeMax(coef_index_range) >= MinPruneCols THEN CoefVecs(Len(sft)) ELSE { << >> }

\* len(set(combined_coef)) > 1
NonConstant(coef) == \E j \in DOMAIN coef, k \in DOMAIN coef : coef[j] # coef[k]

\* c > np.mean(coef) - np.std(coef), in integers: with n values of sum S and
\* sum of squares Q, std > mean - c  iff  S - n*c < 0 or n*Q - S*S > (S - n*c)^2
AboveMeanMinusStd(coef, c) ==
    LET n == Len(coef)
        S == SeqSum(coef)
        Q == SeqSum([k \in 1 .. n |-> coef[k] * coef[k]])
        d == S - n * c
    IN  d < 0 \/ n * Q - S * S > d * d

\* a fault of AboveCutoff: min(combined_coef) left out of the cutoff
AboveCutoffWithoutMin(coef, c) == c > 0 /\ AboveMeanMinusStd(coef, c)

\* c > cutoff, cutoff = max(max(0, mean - std), min(combined_coef))
AboveCutoff(coef, c) == c > 0 /\ AboveMeanMinusStd(coef, c) /\ c > SeqMin(coef)

\* remain_indexes_after_cond = (cur_clf_coef > cutoff)
KeepMask(coef) == [k \in 1 .. Len(coef) |-> AboveCutoff(coef, coef[k])]

\* np.max(combined_coef) / np.min(combined_coef) >= 1.1 (float division: x/0
\* is inf for x > 0 and nan for x = 0)
RatioAtLeast(coef) ==
    LET mx == SeqMax(coef)
        mn == SeqMin(coef)
    IN  CASE mn > 0 -> RatioDen * mx >= RatioNum * mn
          [] mn < 0 -> RatioDen * mx <= RatioNum * mn
          [] OTHER  -> mx > 0

\* a fault of Gate1: the test len(set(combined_coef)) > 1 left out
Gate1NoConstantTest(coef_index_range, coef) ==
    RangeMax(coef_index_range) >= MinPruneCols

\* the round-1 gate (lines 402-403)
Gate1(coef_index_range, coef) ==
    RangeMax(coef_index_range) >= MinPruneCols /\ NonConstant(coef)

\* a fault of Gate2: the ratio test max/min >= 1.1 left out
Gate2NoRatioTest(coef_index_range, coef) ==
    RangeMax(coef_index_range) >= MinPruneCols /\ NonConstant(coef)

\* the gate of the round boundary and of round 2 (lines 511-513, 642-644)
Gate2(coef_index_range, coef) ==
    /\ \/ RangeMax(coef_index_range) > MinPruneCols
       \/ RatioAtLeast(coef) /\ RangeMax(coef_index_range) >= MinPruneCols
    /\ NonConstant(coef)

\* saved_indexes of group g: np.where(cur_clf_coef[s1:e1] > cutoff)[0]
SavedIndexes(coef, coef_index_range, g) ==
    LET s1 == coef_index_range[g][1]
        e1 == coef_index_range[g][2]
        e  == IF e1 < Len(coef) THEN e1 ELSE Len(coef)
    IN  SortedIdx({q \in 0 .. (e - s1 - 1) : KeepMask(coef)[s1 + q + 1]})

\* remain_indexes_after_cond_expanded: per group, per target fraction j, the
\* saved indexes + j * (group width) + (start of the group's instance_range)
ExpandedIndexes(coef, index_range, coef_index_range, n_size) ==
    Flatten([g \in 1 .. Len(coef_index_range) |->
        LET saved == SavedIndexes(coef, coef_index_range, g)
            s_e_range == coef_index_range[g][2] - coef_index_range[g][1]
            s2 == index_range[g][1]
        IN  Flatten([j \in 1 .. n_size |->
                [k \in 1 .. Len(saved) |-> saved[k] + (j - 1) * s_e_range + s2]])])

\* new_coef_index_range_seq: the kept count of every group
NewCoefSeq(coef, coef_index_range) ==
    [g \in 1 .. Len(coef_index_range) |-> Len(SavedIndexes(coef, coef_index_range, g))]

\* the rebuilt coef_index_range (lines 425-431)
NewCoefIndexRange(seq) ==
    [g \in 1 .. Len(seq) |->
        LET cur_sum == SeqSum(SubSeq(seq, 1, g - 1)) IN << cur_sum, cur_sum + seq[g] >>]

\* the rebuilt index_range: [cur_sum * 6, 6 * (cur_sum + kept)]
NewIndexRange(seq) ==
    [g \in 1 .. Len(seq) |->
        LET cur_sum == SeqSum(SubSeq(seq, 1, g - 1))
        IN  << cur_sum * RangeStride, RangeStride * (cur_sum + seq[g]) >>]

\* m[:, mask]
MaskCols(m, mask) ==
    LET keep == SortedIdx({k \in 1 .. Len(m) : mask[k]})
    IN  [k \in 1 .. Len(keep) |-> m[keep[k]]]

\* The pruning step proper (lines 404-437): the active set after it, or the
\* IndexError of L[:, expanded] when an expanded index is no column of L.
Prune(act, coef, n_size) ==
    LET expanded == ExpandedIndexes(coef, act.index_range, act.coef_index_range, n_size)
        seq == NewCoefSeq(coef, act.coef_index_range)
    IN  IF \E k \in DOMAIN expanded : expanded[k] >= Len(act.L)
        THEN [ok |-> FALSE, L |-> act.L, scores_for_training |-> act.scores_for_training,
              index_range |-> act.index_range, coef_index_range |-> act.coef_index_range]
        ELSE [ok |-> TRUE,
              L |-> [k \in 1 .. Len(expanded) |-> act.L[expanded[k] + 1]],
              scores_for_training |-> MaskCols(act.scores_for_training, KeepMask(coef)),
              index_range |-> NewIndexRange(seq),
              coef_index_range |-> NewCoefIndexRange(seq)]

\* The pruning block of an iteration: the gate, then the step.
PruneIf(gate, act, coef, n_size) ==
    IF gate THEN Prune(act, coef, n_size)
    ELSE [ok |-> TRUE, L |-> act.L, scores_for_training |-> act.scores_for_training,
          index_range |-> act.index_range, coef_index_range |-> act.coef_index_range]

\* ------------------------------------------------------ the stability rule
\* a fault of Stable: the test np.max(coef_index_range) < 2 left out
StableIgnoringWidth(last, data, coef_index_range) ==
    /\ Len(last) = Len(data)
    /\ \A k \in DOMAIN data : last[k] = data[k]

\* a fault of Stable: np.max(coef_index_range) <= 2 for < 2
StableUpToTwo(last, data, coef_index_range) ==
    /\ Len(last) = Len(data)
    /\ \A k \in DOMAIN data : last[k] = data[k]
    /\ RangeMax(coef_index_range) <= MinPruneCols

\* len(last) == len(data) and sum(last == data) == len(data) and max < 2
Stable(last, data, coef_index_range) ==
    /\ Len(last) = Len(data)
    /\ \A k \in DOMAIN data : last[k] = data[k]
    /\ RangeMax(coef_index_range) < MinPruneCols

\* a fault of NextCounter: the counter kept, not reset, by an unstable iteration
NextCounterKeeps(counter, last, data, coef_index_range) ==
    IF Stable(last, data, coef_index_range) THEN counter + 1 ELSE counter

\* lines 438-443: counter = counter + 1, else counter = 0
NextCounter(counter, last, data, coef_index_range) ==
    IF Stable(last, data, coef_index_range) THEN counter + 1 ELSE 0

\* ------------------------------------------------------------- the state
VARIABLES
    params,                     \* AutoODParameters
    file,                       \* the uploaded file: extension, content, label column
    X,                          \* the dataset (what the detectors score)
    has_y,                      \* y is not None
    pc,                         \* where run_autood is
    error,                      \* the exception that ended the run, "" if none
    ran,                        \* the stages of run_autood that have executed
    results,                    \* the AutoODResults returned (NotReturned before)
    L_prev, scores,             \* the Builder's L and scores
    instance_index_ranges, detector_index_ranges,
    mv_predictions,             \* run_mv's predictions, << >> when not run
    L, scores_for_training, index_range, coef_index_range,
    prediction_high_conf_outliers, prediction_high_conf_inliers,
    prediction_classifier_disagree,
    clf_predict_proba_X,        \* classifier B's probabilities of the last fit
    fit_at,                     \* <<round, i_range>> of that fit (round 0: the boundary)
    data_indexes, labels, self_agree_index_list, rescue_triggered,
    last_training_data_indexes, counter, i_range,
    prune_log,                  \* what the last pruning block saw and did
    prediction_results          \* autood_training's return value

built == <<L_prev, scores, instance_index_ranges, detector_index_ranges>>
active == <<L, scores_for_training, index_range, coef_index_range>>
confid == <<prediction_high_conf_outliers, prediction_high_conf_inliers,
            prediction_classifier_disagree, clf_predict_proba_X, fit_at>>
labelled == <<data_indexes, labels, self_agree_index_list, rescue_triggered>>
loopctl == <<last_training_data_indexes, counter, i_range>>
inputs == <<params, file, X>>

vars == <<inputs, has_y, pc, error, ran, results, built, mv_predictions, active,
          confid, labelled, loopctl, prune_log, prediction_results>>

\* the files a request can upload
Files ==
    { [ext |-> "csv",  good |-> TRUE,  label_col |-> TRUE],
      [ext |-> "csv",  good |-> TRUE,  label_col |-> FALSE],
      [ext |-> "csv",  good |-> FALSE, label_col |-> TRUE],
      [ext |-> "arff", good |-> FALSE, label_col |-> FALSE],
      [ext |-> "txt",  good |-> TRUE,  label_col |-> FALSE] }

\* load_dataset: None for an extension that is neither arff nor csv; the arff
\* and csv readers and the column lookups raise on content they cannot use.
LoadOutcome(f) ==
    CASE f.ext \notin {"arff", "csv"} -> "none"
      [] ~ f.good -> "raises"
      [] OTHER -> "loaded"

\* y of a loaded file: an arff file always has it, a csv file with a label column
LoadedY(f) == f.ext = "arff" \/ f.label_col

Csv(label) == [ext |-> "csv", good |-> TRUE, label_col |-> label]

Param(ms, k, f, nr) == [detection_methods |-> ms, k_len |-> k, if_len |-> f, N_range |-> nr]

\* The requests of the runs followed here, <<params, file, X>>: one detector
\* column group or two, three target fractions or six, with and without a
\* label column, and the requests that end in load_dataset or in the Builder.
Requests ==
    { <<Param({"KNN"}, 1, 1, N3), Csv(TRUE), 1>>,
      <<Param({"KNN", "Manalanobis"}, 1, 1, N3), Csv(FALSE), 1>>,
      <<Param({"LOF", "Manalanobis"}, MaxSweep, 1, N3), Csv(TRUE), 2>>,
      <<Param({"Manalanobis"}, 1, 1, N3), Csv(TRUE), 1>>,
      <<Param({"IsolationForest"}, 1, MaxSweep, N3), Csv(TRUE), 1>> }
    \cup { <<Param({"KNN"}, 1, 1, N3), f, 1>> : f \in {g \in Files : LoadOutcome(g) # "loaded"} }

\* AutoODResults(error_message=..., results_file_name=...), as run_autood returns it
AutoODResults(msg, fname) ==
    [returned |-> TRUE, error_message |-> msg, results_file_name |-> fname]

\* run_autood has not returned
NotReturned == [returned |-> FALSE, error_message |-> "", results_file_name |-> ""]

NoLog == [computed |-> FALSE, constant |-> FALSE, ratio |-> FALSE, gate |-> FALSE]

\* What a pruning block leaves to look at: whether combined_coef was computed
\* (lines 388-400), whether it was constant, whether its max/min ratio reached
\* 1.1, and whether the gate let the pruning step run.
PruneLog(computed, coef, gate) ==
    [computed |-> computed, constant |-> computed /\ ~ NonConstant(coef),
     ratio |-> computed /\ RatioAtLeast(coef), gate |-> gate]

\* The state when run_autood is entered with one of the requests `reqs`.
InitOf(reqs) ==
    /\ \E rq \in reqs : params = rq[1] /\ file = rq[2] /\ X = rq[3]
    /\ has_y = FALSE
    /\ pc = "start"
    /\ error = ""
    /\ ran = {}
    /\ results = NotReturned
    /\ L_prev = << >> /\ scores = << >>
    /\ instance_index_ranges = << >> /\ detector_index_ranges = << >>
    /\ mv_predictions = << >>
    /\ L = << >> /\ scores_for_training = << >>
    /\ index_range = << >> /\ coef_index_range = << >>
    /\ prediction_high_conf_outliers = {}
    /\ prediction_high_conf_inliers = {}
    /\ prediction_classifier_disagree = {}
    /\ clf_predict_proba_X = << >>
    /\ fit_at = << >>
    /\ data_indexes = << >> /\ labels = << >>
    /\ self_agree_index_list = {} /\ rescue_triggered = FALSE
    /\ last_training_data_indexes = << >> /\ counter = 0 /\ i_range = 0
    /\ prune_log = NoLog
    /\ prediction_results = << >>

Init == InitOf(Requests)

\* run_autood, lines 690-694
LoadDataset ==
    /\ pc = "start"
    /\ pc' = CASE LoadOutcome(file) = "none" -> "done"
               [] LoadOutcome(file) = "raises" -> "error"
               [] OTHER -> "loaded"
    /\ error' = IF LoadOutcome(file) = "raises" THEN "load" ELSE ""
    /\ results' = IF LoadOutcome(file) = "none"
                  THEN AutoODResults("Cannot load data from file", "")
                  ELSE results
    /\ has_y' = (LoadOutcome(file) = "loaded" /\ LoadedY(file))
    /\ UNCHANGED <<inputs, ran, built, mv_predictions, active, confid, labelled,
                   loopctl, prune_log, prediction_results>>

\* run_autood, line 695
RunDetectors ==
    /\ pc = "loaded"
    /\ LET b == Builder(params, X, has_y)
       IN  IF b.ok
           THEN /\ pc' = "built"
                /\ error' = error
                /\ L_prev' = b.L
                /\ scores' = b.scores
                /\ instance_index_ranges' = b.instance_index_ranges
                /\ detector_index_ranges' = b.detector_index_ranges
           ELSE /\ pc' = "error"
                /\ error' = b.error
                /\ UNCHANGED built
    /\ ran' = ran \cup {"build"}
    /\ UNCHANGED <<inputs, has_y, results, mv_predictions, active, confid, labelled,
                   loopctl, prune_log, prediction_results>>

\* run_autood, lines 696-697
RunMV ==
    /\ pc = "built"
    /\ has_y
    /\ mv_predictions' = run_mv(L_prev)
    /\ pc' = "voted"
    /\ ran' = ran \cup {"mv"}
    /\ UNCHANGED <<inputs, has_y, error, results, built, active, confid, labelled,
                   loopctl, prune_log, prediction_results>>

\* autood_training, lines 284-316
StartTraining ==
    /\ \/ pc = "built" /\ ~ has_y
       \/ pc = "voted"
    /\ L' = L_prev
    /\ index_range' = instance_index_ranges
    /\ coef_index_range' = detector_index_ranges
    /\ scores_for_training' =
            ScoresForTraining(scores, instance_index_ranges, detector_index_ranges)
    /\ prediction_high_conf_outliers' = {}
    /\ prediction_high_conf_inliers' = {}
    /\ prediction_classifier_disagree' = {}
    /\ last_training_data_indexes' = << >>
    /\ counter' = 0
    /\ i_range' = 0
    /\ pc' = "r1_fit"
    /\ ran' = ran \cup {"train"}
    /\ UNCHANGED <<inputs, has_y, error, results, built, mv_predictions,
                   clf_predict_proba_X, fit_at, labelled, prune_log,
                   prediction_results>>

\* ----------------------------------------------------- one loop iteration
\* The first half of an iteration of round r (lines 318-386, 553-626): the
\* labeler, the two scalers and fits, and the confidence sets of the fit.
\* RobustScaler.fit raises on a matrix of no columns, the classifiers' fit on
\* labels of one class.
FitHalf(r, next_pc) ==
    LET lab == Labeler(L, index_range, prediction_high_conf_outliers,
                       prediction_high_conf_inliers, prediction_classifier_disagree)
    IN  /\ data_indexes' = lab.data_indexes
        /\ labels' = lab.labels
        /\ self_agree_index_list' = lab.rescue
        /\ rescue_triggered' = lab.triggered
        /\ IF Len(scores_for_training) = 0 \/ FitRaises(lab.labels)
           THEN /\ pc' = "error"
                /\ error' = IF Len(scores_for_training) = 0 THEN "scaler" ELSE "fit"
                /\ UNCHANGED confid
           ELSE /\ pc' = next_pc
                /\ error' = error
                /\ \E fit \in FitOutcomes :
                      /\ prediction_high_conf_outliers' = HighConfOutliers(fit[1], fit[2])
                      /\ prediction_high_conf_inliers' = HighConfInliers(fit[1], fit[2])
                      /\ prediction_classifier_disagree' = ClassifierDisagree(fit[1], fit[2])
                      /\ clf_predict_proba_X' = fit[2]
                /\ fit_at' = <<r, i_range>>
        /\ UNCHANGED <<inputs, has_y, ran, results, built, mv_predictions, active,
                       last_training_data_indexes, counter, i_range, prune_log,
                       prediction_results>>

Active == [L |-> L, scores_for_training |-> scores_for_training,
           index_range |-> index_range, coef_index_range |-> coef_index_range]

\* the active set replaced by `res`
SetActive(res) ==
    /\ L' = res.L
    /\ scores_for_training' = res.scores_for_training
    /\ index_range' = res.index_range
    /\ coef_index_range' = res.coef_index_range

\* The stability rule and the loop control at the end of an iteration of
\* round r (lines 438-446, 678-687), after the pruning block left `res`.
LoopTail(r, res, after_pc) ==
    LET c == NextCounter(counter, last_training_data_indexes, data_indexes,
                         res.coef_index_range)
        leaves == c > StableLimit \/ i_range + 1 >= MaxRoundIter
    IN  /\ counter' = c
        /\ last_training_data_indexes' =
              IF c > StableLimit THEN last_training_data_indexes ELSE data_indexes
        /\ i_range' = IF leaves THEN i_range ELSE i_range + 1
        /\ pc' = IF leaves THEN after_pc ELSE (IF r = 1 THEN "r1_fit" ELSE "r2_fit")
        /\ prediction_results' =
              IF leaves /\ r = 2 THEN Threshold(clf_predict_proba_X)
              ELSE prediction_results

\* The second half of an iteration of round r (lines 388-446, 628-687).
PruneHalf(r, after_pc) ==
    /\ \E coef \in CombinedCoefs(coef_index_range, scores_for_training) :
          LET computed == RangeMax(coef_index_range) >= MinPruneCols
              gate == computed /\ (IF r = 1 THEN Gate1(coef_index_range, coef)
                                   ELSE Gate2(coef_index_range, coef))
              res == PruneIf(gate, Active, coef, Len(params.N_range))
          IN  /\ prune_log' = PruneLog(computed, coef, gate)
              /\ IF res.ok
                 THEN /\ SetActive(res)
                      /\ LoopTail(r, res, after_pc)
                      /\ error' = error
                 ELSE /\ pc' = "error"
                      /\ error' = "IndexError"
                      /\ UNCHANGED <<active, loopctl, prediction_results>>
    /\ UNCHANGED <<inputs, has_y, ran, results, built, mv_predictions, confid,
                   labelled>>

Round1Fit == pc = "r1_fit" /\ FitHalf(1, "r1_prune")

Round1Prune == pc = "r1_prune" /\ PruneHalf(1, "boundary_fit")

Round2Fit == pc = "r2_fit" /\ FitHalf(2, "r2_prune")

Round2Prune == pc = "r2_prune" /\ PruneHalf(2, "trained")

\* a fault of BoundaryActive: round 2 left to start from what round 1 pruned
BoundaryActiveKept == Active

\* What round 2 starts from (lines 449-458 and 496): the Builder's ranges, the
\* score columns selected from them, and L_prev.
BoundaryActive ==
    [L |-> L_prev,
     scores_for_training |->
         ScoresForTraining(scores, instance_index_ranges, detector_index_ranges),
     index_range |-> instance_index_ranges,
     coef_index_range |-> detector_index_ranges]

\* The round boundary, lines 449-497: the ranges and the score columns are taken
\* again from the Builder's output, the classifiers are refitted on the last
\* training set of round 1, and L is L_prev again.
BoundaryRefit ==
    /\ pc = "boundary_fit"
    /\ SetActive(BoundaryActive)
    /\ \E fit \in FitOutcomes :
          /\ prediction_high_conf_outliers' = HighConfOutliers(fit[1], fit[2])
          /\ prediction_high_conf_inliers' = HighConfInliers(fit[1], fit[2])
          /\ prediction_classifier_disagree' = ClassifierDisagree(fit[1], fit[2])
          /\ clf_predict_proba_X' = fit[2]
    /\ fit_at' = <<0, 0>>
    /\ pc' = "boundary_prune"
    /\ UNCHANGED <<inputs, has_y, error, ran, results, built, mv_predictions, labelled,
                   loopctl, prune_log, prediction_results>>

\* The round boundary, lines 499-550: the pruning block under the round-2 gate,
\* then the stability state of round 2.
BoundaryPrune ==
    /\ pc = "boundary_prune"
    /\ \E coef \in CombinedCoefs(coef_index_range, scores_for_training) :
          LET computed == RangeMax(coef_index_range) >= MinPruneCols
              gate == computed /\ Gate2(coef_index_range, coef)
              res == PruneIf(gate, Active, coef, Len(params.N_range))
          IN  /\ prune_log' = PruneLog(computed, coef, gate)
              /\ IF res.ok
                 THEN /\ SetActive(res)
                      /\ pc' = "r2_fit"
                      /\ error' = error
                 ELSE /\ pc' = "error"
                      /\ error' = "IndexError"
                      /\ UNCHANGED active
    /\ last_training_data_indexes' = << >>
    /\ counter' = 0
    /\ i_range' = 0
    /\ UNCHANGED <<inputs, has_y, ran, results, built, mv_predictions, confid,
                   labelled, prediction_results>>

\* run_autood, lines 699-709: the result file and the AutoODResults
Finish ==
    /\ pc = "trained"
    /\ results' = AutoODResults("", "results.csv")
    /\ ran' = ran \cup {"write"}
    /\ pc' = "done"
    /\ UNCHANGED <<inputs, has_y, error, built, mv_predictions, active, confid,
                   labelled, loopctl, prune_log, prediction_results>>

Next ==
    \/ LoadDataset
    \/ RunDetectors
    \/ RunMV
    \/ StartTraining
    \/ Round1Fit
    \/ Round1Prune
    \/ BoundaryRefit
    \/ BoundaryPrune
    \/ Round2Fit
    \/ Round2Prune
    \/ Finish

Spec == Init /\ [][Next]_vars

\* ------------------------------------------- the rescue step on mixed rows
\* The self-agreement rescue (lines 330-341, 569-580) and the pruning step taken
\* as functions of the active set, on vote matrices whose every row is mixed.
\* A whole run cannot carry such a matrix past its first fit (the training set
\* has no inlier, so the fit raises); here the pruning step is applied to it
\* all the same, to give the rescue every range bookkeeping pruning produces.
AllMixed(m) == Disagree(m) = Inst

RescueRequests ==
    { <<p, Csv(y), d>> :
        p \in {q \in ParamSpace : /\ q.detection_methods \in {{"KNN"}, {"LOF", "KNN"}}
                                  /\ q.if_len = 1},
        y \in BOOLEAN, d \in {3, 4} }

InitRescue == InitOf(RescueRequests)

\* the pruning block of round 1 (lines 388-437) on an all-mixed matrix
RescuePrune ==
    /\ pc = "r1_fit"
    /\ AllMixed(L)
    /\ \E coef \in CombinedCoefs(coef_index_range, scores_for_training) :
          LET computed == RangeMax(coef_index_range) >= MinPruneCols
              gate == computed /\ Gate1(coef_index_range, coef)
              res == PruneIf(gate, Active, coef, Len(params.N_range))
          IN  /\ res.ok
              /\ AllMixed(res.L)
              /\ SetActive(res)
              /\ prune_log' = PruneLog(computed, coef, gate)
    /\ UNCHANGED <<inputs, has_y, pc, error, ran, results, built, mv_predictions,
                   confid, labelled, loopctl, prediction_results>>

\* the labeler (lines 318-346) on an all-mixed matrix
RescueStep ==
    /\ pc = "r1_fit"
    /\ AllMixed(L)
    /\ LET lab == Labeler(L, index_range, prediction_high_conf_outliers,
                          prediction_high_conf_inliers, prediction_classifier_disagree)
       IN  /\ data_indexes' = lab.data_indexes
           /\ labels' = lab.labels
           /\ self_agree_index_list' = lab.rescue
           /\ rescue_triggered' = lab.triggered
    /\ pc' = "rescue_done"
    /\ UNCHANGED <<inputs, has_y, error, ran, results, built, mv_predictions, active,
                   confid, loopctl, prune_log, prediction_results>>

NextRescue ==
    \/ LoadDataset
    \/ RunDetectors
    \/ RunMV
    \/ StartTraining
    \/ RescuePrune
    \/ RescueStep

SpecRescue == InitRescue /\ [][NextRescue]_vars

\* ------------------------------------------------- the Builder on its own
\* _run_unsupervised_outlier_detection_methods over every parameter setting:
\* every method selection, every length of the k sweep and of the Isolation
\* Forest sweep, three or six target fractions, with and without y.
BuilderRequests ==
    { <<p, Csv(y), d>> : p \in ParamSpace, y \in BOOLEAN, d \in {1, 2} }

InitBuilder == InitOf(BuilderRequests)

NextBuilder ==
    \/ LoadDataset
    \/ RunDetectors

SpecBuilder == InitBuilder /\ [][NextBuilder]_vars

\* --------------------------------------------- the pruning block on its own
\* The pruning block (lines 388-437, 499-546, 628-677) driven by every
\* coefficient vector, step after step within a round, with the vector it was
\* given kept next to what it did.  The fits between two blocks are left out:
\* they do not touch L, the score columns or the ranges.
PruneRequests ==
    { <<p, Csv(y), 1>> :
        p \in {q \in ParamSpace :
                 /\ q.detection_methods \in {{"KNN"}, {"KNN", "Manalanobis"}}
                 /\ q.if_len = 1},
        y \in BOOLEAN }

InitPrune == InitOf(PruneRequests)

\* one pruning block of round r on the active set
PruneBlock(r) ==
    /\ pc = (IF r = 1 THEN "r1_fit" ELSE "r2_fit")
    /\ \E coef \in CombinedCoefs(coef_index_range, scores_for_training) :
          LET computed == RangeMax(coef_index_range) >= MinPruneCols
              gate == computed /\ (IF r = 1 THEN Gate1(coef_index_range, coef)
                                   ELSE Gate2(coef_index_range, coef))
              res == PruneIf(gate, Active, coef, Len(params.N_range))
          IN  /\ prune_log' = PruneLog(computed, coef, gate) @@ [combined_coef |-> coef]
              /\ IF res.ok
                 THEN /\ SetActive(res)
                      /\ pc' = pc
                      /\ error' = error
                 ELSE /\ pc' = "error"
                      /\ error' = "IndexError"
                      /\ UNCHANGED active
    /\ UNCHANGED <<inputs, has_y, ran, results, built, mv_predictions, confid,
                   labelled, loopctl, prediction_results>>

PruneRound1 == PruneBlock(1)

PruneRound2 == PruneBlock(2)

\* the reset between the rounds (lines 449-458 and 496)
PruneReset ==
    /\ pc = "r1_fit"
    /\ SetActive(BoundaryActive)
    /\ pc' = "r2_fit"
    /\ UNCHANGED <<inputs, has_y, error, ran, results, built, mv_predictions, confid,
                   labelled, loopctl, prune_log, prediction_results>>

NextPrune ==
    \/ LoadDataset
    \/ RunDetectors
    \/ RunMV
    \/ StartTraining
    \/ PruneRound1
    \/ PruneReset
    \/ PruneRound2

SpecPrune == InitPrune /\ [][NextPrune]_vars

\* ----------------------------------------------- get_predictions on its own
\* One pass of a detector loop of the Builder (lines 163-165) on any score
\* vector, ties included, and any target count below the number of instances.
ScoreVals == 0 .. NumInst

PredictRequests == { <<Param({"KNN"}, 1, 1, N3), Csv(TRUE), 1>> }

InitPredict == InitOf(PredictRequests)

GetPredictionsCall ==
    /\ pc = "loaded"
    /\ \E s \in [Inst -> ScoreVals], k \in 0 .. (NumInst - 1) :
          /\ L_prev' = << [method |-> "KNN", h |-> 1, blk |-> 0, target |-> k,
                           votes |-> get_predictions(s, k)] >>
          /\ scores' = << [method |-> "KNN", h |-> 1, score |-> s] >>
    /\ pc' = "predicted"
    /\ UNCHANGED <<inputs, has_y, error, ran, results, instance_index_ranges,
                   detector_index_ranges, mv_predictions, active, confid, labelled,
                   loopctl, prune_log, prediction_results>>

NextPredict ==
    \/ LoadDataset
    \/ GetPredictionsCall

SpecPredict == InitPredict /\ [][NextPredict]_vars

\* =============================================================== properties
\* the number of columns of m in which instance i is voted an outlier
RowOnes(m, i) == Cardinality({c \in DOMAIN m : m[c].votes[i] = 1})

Width(r) == r[2] - r[1]

\* autood_training is running or has just returned
InTraining ==
    pc \in {"r1_fit", "r1_prune", "boundary_fit", "boundary_prune", "r2_fit",
            "r2_prune", "trained"}

\* ---------------------------------------------------------------------- C1
\* C1: when autood_training returns, the prediction vector has one entry per
\* instance, every entry is 0 or 1, and entry i is 1 exactly when classifier
\* B's probability for i, from the last executed iteration of round 2, is
\* strictly above 0.5.
C1_FinalPrediction ==
    (pc = "trained" \/ (pc = "done" /\ "write" \in ran)) =>
        /\ DOMAIN prediction_results = Inst
        /\ \A i \in Inst :
              /\ prediction_results[i] \in {0, 1}
              /\ prediction_results[i] = 1 <=> clf_predict_proba_X[i] > HalfProb
        /\ fit_at = <<2, i_range>>

\* a run returned after more than one iteration of round 2, with an outlier, an
\* inlier, and an instance at exactly 0.5
C1_Returned ==
    /\ pc = "trained"
    /\ i_range > 0
    /\ \E i \in Inst : prediction_results[i] = 1
    /\ \E i \in Inst : prediction_results[i] = 0 /\ clf_predict_proba_X[i] = HalfProb

\* ---------------------------------------------------------------------- C2
\* C2: without ground truth the Builder returns the L, the scores and the two
\* range lists it returns with ground truth (so that the loop sees the same).
C2_BuilderIgnoresY ==
    (pc = "built" /\ ~ has_y) =>
        LET b == Builder(params, X, TRUE)
        IN  /\ L_prev = b.L
            /\ scores = b.scores
            /\ detector_index_ranges = b.detector_index_ranges
            /\ instance_index_ranges = b.instance_index_ranges

\* ---------------------------------------------------------------------- C3
C3_InPrune == pc \in {"r1_prune", "r2_prune"} /\ pc' # "error"

C3_Left == pc' \in {"boundary_fit", "trained"}

\* this iteration's index list is the previous iteration's, and no more than one
\* detector column is left (np.max(coef_index_range) < 2)
C3_Same ==
    /\ last_training_data_indexes = data_indexes
    /\ RangeMax(coef_index_range') < MinPruneCols

\* C3 as the code has it: the counter counts the iterations whose index list
\* repeats the one before while at most one detector column is left; a round
\* stops at the fifth of five such consecutive iterations (the fourth repeat),
\* with the counter at 4, and before its 50th iteration it stops only there.
C3_Stability ==
    [][C3_InPrune =>
          /\ counter <= i_range
          /\ counter' = (IF C3_Same THEN counter + 1 ELSE 0)
          /\ (C3_Same /\ counter = StableLimit) =>
                (C3_Left /\ counter' = StableLimit + 1)
          /\ (C3_Left /\ i_range < MaxRoundIter - 1) =>
                (C3_Same /\ counter = StableLimit /\ i_range >= StableLimit + 1)]_vars

\* C3 as stated: once the index list has been the same for four consecutive
\* iterations without pruning (three repeats counted), the round stops there.
C3_StopsAtFourth ==
    [][(C3_InPrune /\ C3_Same /\ counter' = StableLimit) => C3_Left]_vars

\* round 2 stopped by the stability rule at its fifth iteration
C3_StoppedAtFifth ==
    /\ pc = "trained"
    /\ counter = StableLimit + 1
    /\ i_range = StableLimit + 1

C5_WidthInvariant ==
    InTraining =>
        /\ \A g \in DOMAIN index_range :
              Width(index_range[g]) = Width(coef_index_range[g]) * Len(params.N_range)
        /\ SeqSum([g \in DOMAIN coef_index_range |-> Width(coef_index_range[g])])
              <= SeqSum([g \in DOMAIN index_range |-> Width(index_range[g])])

C7_LoadFailureReported ==
    /\ (pc # "start" /\ LoadOutcome(file) # "loaded") =>
          /\ results.returned
          /\ results.error_message # ""
          /\ ran = {}
    /\ (LoadOutcome(file) = "loaded" /\ results.returned) => results.error_message = ""

\* ---------------------------------------------------------------------- C8
\* C8: a pruning block whose combined coefficient vector is constant leaves L,
\* the active score columns and both range lists as they are and raises
\* nothing, in round 1, at the round boundary and in round 2.
C8_ConstantCoefIsNoOp ==
    [][(pc \in {"r1_prune", "boundary_prune", "r2_prune"} /\ prune_log'.constant) =>
          /\ active' = active
          /\ pc' # "error"
          /\ error' = error]_vars

\* round 2 entered after a boundary gate that saw a constant vector on two or
\* more detector columns
C8_ConstantAtBoundary ==
    /\ pc = "r2_fit"
    /\ i_range = 0
    /\ prune_log.constant
    /\ RangeMax(coef_index_range) >= MinPruneCols

\* ---------------------------------------------------------------------- C9
\* C9: the majority vote is taken on the Builder's vote matrix, only when y is
\* there, and votes 1 for a row exactly when more than half of the columns do
\* (a row at exactly half gets 0).
C9_MajorityVote ==
    /\ mv_predictions # << >> =>
          /\ has_y
          /\ L_prev = Builder(params, X, has_y).L
          /\ \A i \in Inst :
                mv_predictions[i] =
                    (IF 2 * RowOnes(L_prev, i) > Len(L_prev) THEN 1 ELSE 0)
    /\ ("train" \in ran /\ has_y) => mv_predictions # << >>
    /\ ~ has_y => mv_predictions = << >>

\* a voted matrix with a row at exactly half of its columns
C9_TieRow ==
    /\ pc = "voted"
    /\ \E i \in Inst : 2 * RowOnes(L_prev, i) = Len(L_prev) /\ mv_predictions[i] = 0
    /\ \E i \in Inst : mv_predictions[i] = 1

\* --------------------------------------------------------------------- C10
\* C10: a run of autood_training stops short of returning only when a
\* classifier fit raises, and a round runs between 1 and 50 iterations.
C10_OnlyFitsStopTraining ==
    /\ (pc = "error" /\ "train" \in ran) => error = "fit"
    /\ InTraining => i_range \in 0 .. (MaxRoundIter - 1)

\* --------------------------------------------------------------------- C11
\* the columns of L_prev that method m contributed
C11_ColumnsOf(m) == {c \in DOMAIN L_prev : L_prev[c].method = m}

\* C11: the Builder returns for every request, and for every selected method g
\* instance_range[g] is exactly the block of g's columns in L, detector_range[g]
\* is as wide as g's hyperparameter sweep, and the column at offset
\* j * |H_g| + h of the block is hyperparameter h at the j-th smallest target
\* count, so that every pair occurs once.
C11_BuilderLayout ==
    /\ ~ (pc = "error" /\ ran = {"build"})
    /\ pc = "built" =>
          LET sel == Selected(params)
              counts == NpSort(NRangeCounts(params))
          IN  \A g \in DOMAIN sel :
                LET ir == instance_index_ranges[g]
                    H == SweepLen(params, sel[g])
                IN  /\ C11_ColumnsOf(sel[g]) = (ir[1] + 1) .. ir[2]
                    /\ Width(detector_index_ranges[g]) = H
                    /\ Cardinality(C11_ColumnsOf(sel[g])) = H * Len(counts)
                    /\ \A j \in 0 .. (Len(counts) - 1) : \A h \in 0 .. (H - 1) :
                          LET c == ir[1] + j * H + h + 1
                          IN  /\ c \in DOMAIN L_prev
                              /\ L_prev[c].method = sel[g]
                              /\ L_prev[c].h = h + 1
                              /\ L_prev[c].target = counts[j + 1]

\* --------------------------------------------------------------------- C12
\* the columns of L that hold votes of the hyperparameter of score column k
C12_VotesOf(k) ==
    {c \in DOMAIN L : /\ L[c].method = scores_for_training[k].method
                       /\ L[c].h = scores_for_training[k].h}

\* C12: no pruning step indexes outside L, and after a pruning step the active
\* score matrix has one column per kept hyperparameter and L has, for each of
\* them, one vote column per target fraction and no other column.
C12_PrunedLayout ==
    /\ ~ (pc = "error" /\ error = "IndexError" /\ "train" \in ran)
    /\ (pc \in {"r1_fit", "boundary_fit", "r2_fit", "trained"} /\ prune_log.gate) =>
          /\ \A j, k \in DOMAIN scores_for_training :
                (/\ scores_for_training[j].method = scores_for_training[k].method
                 /\ scores_for_training[j].h = scores_for_training[k].h) => j = k
          /\ \A k \in DOMAIN scores_for_training :
                /\ Cardinality(C12_VotesOf(k)) = Len(params.N_range)
                /\ {L[c].blk : c \in C12_VotesOf(k)} = 0 .. (Len(params.N_range) - 1)
          /\ \A c \in DOMAIN L : \E k \in DOMAIN scores_for_training : c \in C12_VotesOf(k)

\* --------------------------------------------------------------------- C13
C13_EndsIteration == pc \in {"r1_prune", "r2_prune"} /\ pc' # "error"

C13_SameList == data_indexes = last_training_data_indexes

C13_StartsRound ==
    pc \in {"built", "voted", "boundary_prune"} /\ pc' \in {"r1_fit", "r2_fit"}

\* C13 as the code has it: at the end of every iteration the counter goes up by
\* one exactly when the iteration's index list is the previous iteration's and
\* the largest detector_range endpoint, after the pruning block, is below 2;
\* otherwise it is reset to 0.  The round is left exactly when the counter
\* exceeds 3 or the 50th iteration is over, and each round starts with the
\* counter at 0 and an empty previous list.
C13_Counter ==
    [][/\ C13_EndsIteration =>
             /\ counter' = (IF C13_SameList /\ RangeMax(coef_index_range') < MinPruneCols
                            THEN counter + 1 ELSE 0)
             /\ (pc' \in {"boundary_fit", "trained"}) <=>
                   (counter' > StableLimit \/ i_range = MaxRoundIter - 1)
             /\ pc' \in {"r1_fit", "r2_fit"} =>
                   (i_range' = i_range + 1 /\ last_training_data_indexes' = data_indexes)
       /\ C13_StartsRound =>
             (counter' = 0 /\ last_training_data_indexes' = << >> /\ i_range' = 0)]_vars

\* C13 as stated: the counter goes up exactly when the list is the previous one
\* and the iteration did not prune.
C13_CounterByPruning ==
    [][C13_EndsIteration =>
          counter' = (IF C13_SameList /\ ~ prune_log'.gate THEN counter + 1 ELSE 0)]_vars

\* an iteration of round 1 reached with three repeats counted, after a reset
\* earlier in the round
C13_CountingAfterReset ==
    /\ pc = "r1_fit"
    /\ counter = StableLimit
    /\ i_range > StableLimit + 1

\* --------------------------------------------------------------------- C14
C14_InPruneBlock == pc \in {"r1_prune", "boundary_prune", "r2_prune"}

\* the gate as C14 states it, on what the block saw
C14_Gate ==
    LET mx == RangeMax(coef_index_range)
        nonconstant == prune_log'.computed /\ ~ prune_log'.constant
    IN  IF pc = "r1_prune"
        THEN nonconstant /\ mx >= 2
        ELSE nonconstant /\ (mx > 2 \/ (mx = 2 /\ prune_log'.ratio))

\* C14: a pruning block removes columns (or raises in the attempt) exactly when
\* the gate of its round holds; in every other block, and whenever fewer than
\* 2 hyperparameter columns are active, L, the active score columns and both
\* range lists stay as they are.
C14_GateDecidesPruning ==
    [][C14_InPruneBlock =>
          /\ C14_Gate <=>
                \/ /\ Len(scores_for_training') < Len(scores_for_training)
                   /\ Len(L') < Len(L)
                \/ pc' = "error"
          /\ ~ C14_Gate => (active' = active /\ pc' # "error")
          /\ RangeMax(coef_index_range) < 2 =>
                (active' = active /\ ~ prune_log'.computed)]_vars

\* round 2 with exactly two active columns after a block that saw a
\* non-constant vector with max/min below 1.1 and pruned nothing
C14_RatioHeldBack ==
    /\ pc = "r2_fit"
    /\ i_range > 0
    /\ RangeMax(coef_index_range) = 2
    /\ prune_log.computed /\ ~ prune_log.constant /\ ~ prune_log.ratio
    /\ ~ prune_log.gate

\* --------------------------------------------------------------------- C15
\* a pruning block that let the pruning step run, and the step returned
C15_Pruned == pc \in {"r1_fit", "r2_fit"} /\ pc' = pc /\ prune_log'.gate

\* c > mean - std of the vector v, on integers: with n values of sum S,
\* n^3 * variance is the sum D of the (n * v[k] - S)^2
C15_AboveMeanMinusStd(v, c) ==
    LET n == Len(v)
        S == SeqSum(v)
        D == SeqSum([k \in 1 .. n |-> (n * v[k] - S) * (n * v[k] - S)])
    IN  S < n * c \/ D > n * (S - n * c) * (S - n * c)

\* the positions of v whose coefficient is strictly above
\* max(max(0, mean - std), min)
C15_Kept(v) ==
    {k \in DOMAIN v : /\ v[k] > 0
                      /\ C15_AboveMeanMinusStd(v, v[k])
                      /\ \E j \in DOMAIN v : v[j] < v[k]}

C15_TotalWidth(rs) == SeqSum([g \in DOMAIN rs |-> Width(rs[g])])

\* C15: a pruning step keeps exactly the score columns whose coefficient is
\* strictly above the cutoff, in their order; a column holding the minimum is
\* dropped, each group's detector_range becomes as wide as the group's kept
\* columns, the total width goes down at every pruning step, and no block of a
\* round makes it go up.
C15_KeptAboveCutoff ==
    [][/\ C15_Pruned =>
             LET v == prune_log'.combined_coef
                 kept == SortedIdx(C15_Kept(v))
             IN  /\ Len(v) = Len(scores_for_training)
                 /\ scores_for_training' =
                       [k \in 1 .. Len(kept) |-> scores_for_training[kept[k]]]
                 /\ \E k \in DOMAIN v :
                       (\A j \in DOMAIN v : v[k] <= v[j]) /\ k \notin C15_Kept(v)
                 /\ \A g \in DOMAIN coef_index_range :
                       Width(coef_index_range'[g]) =
                          Cardinality({k \in C15_Kept(v) :
                              coef_index_range[g][1] < k /\ k <= coef_index_range[g][2]})
                 /\ C15_TotalWidth(coef_index_range') < C15_TotalWidth(coef_index_range)
                 /\ RangeMax(coef_index_range') = C15_TotalWidth(coef_index_range')
       /\ (pc \in {"r1_fit", "r2_fit"} /\ pc' = pc) =>
             C15_TotalWidth(coef_index_range') <= C15_TotalWidth(coef_index_range)]_vars

\* a step on three or more columns whose cutoff was the minimum itself (all
\* coefficients positive, the minimum above mean - std) and kept one column
C15_CutoffIsMinimum ==
    /\ pc \in {"r1_fit", "r2_fit"}
    /\ prune_log.gate
    /\ Len(prune_log.combined_coef) >= 3
    /\ SeqMin(prune_log.combined_coef) > 0
    /\ C15_AboveMeanMinusStd(prune_log.combined_coef, SeqMin(prune_log.combined_coef))
    /\ Len(scores_for_training) = 1

\* --------------------------------------------------------------------- C16
\* the labeler of an iteration runs in this step
C16_Labels == pc \in {"r1_fit", "r2_fit"}

\* the fit whose confidence sets this iteration reads
C16_PrecedingFit ==
    IF i_range > 0 THEN <<(IF pc = "r1_fit" THEN 1 ELSE 2), i_range - 1>> ELSE <<0, 0>>

\* C16: in every iteration of both rounds the training set is the inliers
\* ((agreeInlier - HCOut), cut to HCIn when HCIn is not empty) - D with label 0,
\* followed by the outliers (agreeOutlier + HCOut + rescue set) - D with label
\* 1; HCOut, HCIn and D are those of the preceding fit and empty at the first
\* iteration of round 1; the rescue set is empty unless, before the rescue,
\* there is no outlier candidate or the inliers are more than 1000 times the
\* outlier candidates.
C16_TrainingSet ==
    [][C16_Labels =>
          LET HCOut == prediction_high_conf_outliers
              HCIn == prediction_high_conf_inliers
              D == prediction_classifier_disagree
              agreeInlier == {i \in Inst : RowOnes(L, i) = 0}
              agreeOutlier == {i \in Inst : RowOnes(L, i) = Len(L)}
              base == agreeInlier \ HCOut
              inl == (IF HCIn # {} THEN base \cap HCIn ELSE base) \ D
              cand == agreeOutlier \cup HCOut
              trigger == cand = {} \/ Cardinality(inl) > ImbalanceRatio * Cardinality(cand)
              outl == (cand \cup self_agree_index_list') \ D
          IN  /\ data_indexes' = SortedIdx(inl) \o SortedIdx(outl)
              /\ labels' = [k \in 1 .. Cardinality(inl) + Cardinality(outl) |->
                                IF k <= Cardinality(inl) THEN 0 ELSE 1]
              /\ rescue_triggered' = trigger
              /\ ~ trigger => self_agree_index_list' = {}
              /\ (pc = "r1_fit" /\ i_range = 0) => (HCOut = {} /\ HCIn = {} /\ D = {})
              /\ ~ (pc = "r1_fit" /\ i_range = 0) => fit_at = C16_PrecedingFit]_vars

\* a fitted iteration whose training set holds inliers and a rescued instance
\* labelled 1
C16_RescuedInTrainingSet ==
    /\ pc \in {"r1_prune", "r2_prune"}
    /\ self_agree_index_list # {}
    /\ \E k \in DOMAIN labels : labels[k] = 0
    /\ \E k \in DOMAIN labels : labels[k] = 1 /\ data_indexes[k] \in self_agree_index_list

\* --------------------------------------------------------------------- C17
\* x is the r-th largest entry of the score vector s (r from 1)
C17_IsRthLargest(s, r, x) ==
    /\ \E i \in Inst : s[i] = x
    /\ Cardinality({i \in Inst : s[i] > x}) < r
    /\ Cardinality({i \in Inst : s[i] >= x}) >= r

C17_Ones(v) == {i \in Inst : v[i] = 1}

\* C17: every vote column is 0 or 1, with 1 exactly on the instances whose
\* score is strictly above the (k+1)-th largest score, k the column's target
\* count; at most k instances are voted 1, and exactly k when the k-th largest
\* score is strictly above the (k+1)-th (none for k = 0).
C17_StrictlyAboveThreshold ==
    \A c \in DOMAIN L_prev :
        LET s == scores[c].score
            k == L_prev[c].target
            v == L_prev[c].votes
        IN  /\ k < NumInst
            /\ \A i \in Inst : v[i] \in {0, 1}
            /\ \A x \in {s[i] : i \in Inst} :
                  C17_IsRthLargest(s, k + 1, x) =>
                      /\ \A i \in Inst : v[i] = 1 <=> s[i] > x
                      /\ \A w \in {s[i] : i \in Inst} :
                            (k >= 1 /\ C17_IsRthLargest(s, k, w)) =>
                                (Cardinality(C17_Ones(v)) = k <=> w > x)
            /\ \E x \in {s[i] : i \in Inst} : C17_IsRthLargest(s, k + 1, x)
            /\ Cardinality(C17_Ones(v)) <= k
            /\ k = 0 => C17_Ones(v) = {}

\* a call whose threshold is tied with the score above it: fewer than k votes
C17_TieAtThreshold ==
    /\ pc = "predicted"
    /\ L_prev[1].target = 2
    /\ Cardinality(C17_Ones(L_prev[1].votes)) = 1

\* --------------------------------------------------------------------- C18
\* round(f * N), f in hundredths (no product of the fractions used here with
\* NumInst lies at one half below an even number, where Python rounds down)
C18_Round(percent) == (2 * NumInst * percent + 100) \div 200

\* C18: the target count of every vote column is round(f * N), f the column's
\* target fraction (the columns of an Isolation Forest sweep as long as the k
\* sweep, and of every other method: there the block index is the fraction's).
C18_TargetIsRounded ==
    pc = "built" =>
        \A c \in DOMAIN L_prev :
            (L_prev[c].method # "IsolationForest" \/ params.if_len = params.k_len) =>
                L_prev[c].target = C18_Round(params.N_range[L_prev[c].blk + 1])

\* --------------------------------------------------------------------- C19
\* what C19 asks of the step in which an iteration builds its training set
C19_Built ==
    /\ Len(labels') = Len(data_indexes')
    /\ \A j, k \in DOMAIN data_indexes' :
          data_indexes'[j] = data_indexes'[k] => j = k
    /\ \A k \in DOMAIN data_indexes' :
          data_indexes'[k] \notin prediction_classifier_disagree

\* C19: the training set an iteration builds has one label per entry, holds no
\* instance twice (so none with both labels), and holds no instance of the
\* classifier-disagreement set of the preceding fit.
C19_ConsistentTrainingSet == [][C16_Labels => C19_Built]_vars

\* --------------------------------------------------------------------- C20
\* C20: throughout training at least one hyperparameter column is active: L
\* and the active score matrix have a column and the largest detector_range
\* endpoint is at least 1.
C20_ColumnRemains ==
    InTraining =>
        /\ Len(L) >= 1
        /\ Len(scores_for_training) >= 1
        /\ RangeMax(coef_index_range) >= 1

\* --------------------------------------------------------------------- C21
\* the labels an iteration hands to the classifiers hold a 0 and a 1
C21_HasBoth ==
    /\ \E k \in DOMAIN labels' : labels'[k] = 0
    /\ \E k \in DOMAIN labels' : labels'[k] = 1

\* the labels the round-boundary refit is handed (those of round 1's last fit)
C21_AtBoundary ==
    pc = "boundary_fit" =>
        /\ \E k \in DOMAIN labels : labels[k] = 0
        /\ \E k \in DOMAIN labels : labels[k] = 1

\* C21: in every iteration of either round the training set handed to the two
\* classifiers holds at least one instance labelled 0 and at least one
\* labelled 1.
C21_BothLabels == [][C16_Labels => C21_HasBoth]_vars

\* --------------------------------------------------------------------- C22
\* an iteration comes to its end (no exception in its pruning block)
C22_EndsIteration == pc \in {"r1_prune", "r2_prune"} /\ pc' # "error"

\* the iteration ends with at least 2 hyperparameter columns active
C22_TwoActive == RangeMax(coef_index_range') >= MinPruneCols

\* C22: the stability counter is non-zero only after an iteration that ends
\* with the largest detector_range endpoint below 2; an iteration that ends
\* with at least 2 columns active leaves the counter at 0 and does not break
\* the round, which goes on to its next iteration and is left only when its
\* 50th iteration is over, whether or not the training set repeats.
C22_NoEarlyBreak ==
    [][C22_EndsIteration =>
          /\ counter' > 0 => RangeMax(coef_index_range') < MinPruneCols
          /\ C22_TwoActive =>
                /\ counter' = 0
                /\ IF i_range = MaxRoundIter - 1
                   THEN pc' \in {"boundary_fit", "trained"}
                   ELSE pc' \in {"r1_fit", "r2_fit"} /\ i_range' = i_range + 1]_vars

\* the 50th iteration of a round has built the training set of the 49th with
\* at least 2 columns active and nothing counted
C22_FiftyWithSameSet ==
    /\ pc \in {"r1_prune", "r2_prune"}
    /\ i_range = MaxRoundIter - 1
    /\ counter = 0
    /\ RangeMax(coef_index_range) >= MinPruneCols
    /\ data_indexes = last_training_data_indexes

====
